---- MODULE Spec2Model ----
(***************************************************************************)
(* Hifazat-AI: the threat correlation and escalation core.                 *)
(*                                                                         *)
(*   Spec       the dashboard's admission paths (frame pipeline, local and *)
(*              mobile audio, Test button), the alert store of useDemoMode,*)
(*              createAlert's per-type debounce and the dispatch debounce  *)
(*              of useEmergencyDispatch.                                   *)
(*   SpecHist   the alert store filled up to and past its capacity.        *)
(*   SpecStore  the alert store of useDemoMode on the Index page: 'alert'  *)
(*              messages of the WebSocket, acknowledgeAlert, resetStatus.  *)
(*   SpecCreate createAlert calls of the frame pipeline and of the Test    *)
(*              button in flight at the same time.                         *)
(*   SpecWeapon detectWeapons: throttle, cache and consecutive count.      *)
(*   SpecPose   detectPose and the dashboard's pose branch.                *)
(*   SpecFrames processFrameWithAI channel by channel, with detector calls *)
(*              that fail and dispatches that are never answered.          *)
(*   SpecSocket useWebSocket: connect, disconnect, the socket's events and *)
(*              the reconnect timer.                                       *)
(*   SpecMic    useAudioDetection: startListening, stopListening and the   *)
(*              enabled effect.                                            *)
(*   SpecFn     the emergency-dispatch edge function, one request.         *)
(*   SpecDispatch  admissions whose sendEmergencyAlert calls are served by *)
(*              the edge function, one invocation after the other.         *)
(*                                                                         *)
(* Times are milliseconds (Date.now()).  A confidence is a percentage      *)
(* (0.85 is 85).  JavaScript's null/undefined number is 0, which is what   *)
(* the code's truthiness tests (`x && ...`) make of it.                    *)
(***************************************************************************)
EXTENDS Integers, Sequences, FiniteSets, TLC

VARIABLES
    now,            \* Date.now()
    ticks,          \* number of clock advances so far (bounded)
    alerts,         \* useDemoMode: alerts, most recent first
    campusStatus,   \* useDemoMode: campusStatus
    threatState,    \* useThreatDetection: threatStateRef.current
    lastSentAt,     \* useEmergencyDispatch: lastSentAt as of the last render
    processing,     \* Dashboard: processingRef.current
    frameSeen,      \* lastSentAt closed over by the running processFrameWithAI (0: none)
    audioOn,        \* useAudioDetection: a processor is installed
    audioSeen,      \* lastSentAt closed over by processor.onaudioprocess (0: none)
    lastProcessTime,\* useAudioDetection: lastProcessTimeRef.current
    created,        \* number of AlertRecords created so far
    lastAttemptAt,  \* time of the most recent outbound invocation (0: none)
    outbound,       \* number of outbound invocations so far
    wd,             \* useWeaponDetection: refs of detectWeapons
    wret,           \* what the last detectWeapons call returned and why
    sos,            \* usePoseDetection: sosStateRef and lastProcessedTimeRef
    pret,           \* what the last detectPose call returned
    fn,             \* emergency-dispatch: one request being served
    calls,          \* createAlert: the calls in flight and those that returned
    frameRun,       \* processFrameWithAI: what the frames processed so far did
    sock,           \* useWebSocket: sockets, reconnect timers, state
    mic             \* useAudioDetection: startListening calls and captures

engineVars == <<alerts, campusStatus, threatState, lastSentAt, processing,
                frameSeen, audioOn, audioSeen, lastProcessTime, created,
                lastAttemptAt, outbound>>
weaponVars == <<wd, wret>>
poseVars   == <<sos, pret>>
vars == <<now, ticks, engineVars, weaponVars, poseVars, fn, calls, frameRun, sock, mic>>

----------------------------------------------------------------------------
(* Program constants *)

ALERT_DEBOUNCE_MS == 5000
DEBOUNCE_MS == 30000
HISTORY_CAPACITY == 20
AUDIO_FRAME_MS == 960
AudioConfidenceThreshold == 30
FACE_DETECTION_SKIP == 12
POSE_DETECTION_SKIP == 6
WEAPON_DETECTION_SKIP == 8
DETECTION_INTERVAL_MS == 1000
REQUIRED_CONSECUTIVE == 3
OVERALL_CONFIDENCE_MIN == 82
confidenceThreshold == 85
MAX_ANALYSIS_CONFIDENCE == 95
SOS_TRIGGER_DURATION == 3000
POSE_THROTTLE_MS == 66
maxRetries == 5

(* Bounds of the model *)

Epoch == 1000
MaxTicks == 1
MaxAlerts == 2
MaxHistTicks == 1
MaxHistAlerts == 22
MaxStoreTicks == 1
MaxStoreAlerts == 3
MaxWeaponTicks == 6
MaxPoseTicks == 4
MaxDispTicks == 1
MaxDispAlerts == 2
MaxCreateTicks == 2
MaxCreateCalls == 3
MaxPipeTicks == 1
MaxPipeAlerts == 3
MaxPipeFrames == 2
MaxSockConnects == 6
MaxSockLive == 1
MaxMicStarts == 6

Min(a, b) == IF a < b THEN a ELSE b

\* `x && ...` on a number | null
Truthy(x) == x # 0

Severity(s) == CASE s = "secure" -> 0 [] s = "alert" -> 1 [] s = "lockdown" -> 2

----------------------------------------------------------------------------
(* The engine's state as one value, so that a handler is a composition of  *)
(* the calls it makes.                                                     *)

Cur == [alerts |-> alerts, campusStatus |-> campusStatus,
        threatState |-> threatState, lastSentAt |-> lastSentAt,
        created |-> created, lastAttemptAt |-> lastAttemptAt,
        outbound |-> outbound]

\* useDemoMode.addAlert: [newAlert, ...prev].slice(0, 20)
SliceHistoryFromEnd(list) ==
    SubSeq(list, Len(list) - Min(Len(list), HISTORY_CAPACITY) + 1, Len(list))
SliceHistory(list) == SubSeq(list, 1, Min(Len(list), HISTORY_CAPACITY))

\* useDemoMode.addAlert: the status it sets from the alert's type
AddAlertStatus(type, status) ==
    IF type = "threat" THEN "lockdown"
    ELSE IF type = "sos" \/ type = "intrusion" THEN "alert"
    ELSE status

\* useDemoMode.addAlert: id and timestamp are both Date.now()
AddAlert(s, type, conf, t) ==
    LET newAlert == [id |-> t, timestamp |-> t, type |-> type, conf |-> conf,
                     acknowledged |-> FALSE, seq |-> s.created + 1]
    IN [s EXCEPT !.alerts = SliceHistory(<<newAlert>> \o s.alerts),
                 !.campusStatus = AddAlertStatus(type, s.campusStatus),
                 !.created = s.created + 1]

SetCampusStatus(s, v) == [s EXCEPT !.campusStatus = v]

\* useThreatDetection.createAlert: the debounce test
Debounced(last, t) == Truthy(last) /\ t - last < ALERT_DEBOUNCE_MS

\* useThreatDetection.createAlert: null when debounced, else the last-alert
\* time of the type is set and an alert is returned
CreateAlertAdmits(s, type, t) ==
    IF type = "weapon" THEN ~Debounced(s.threatState.lastWeaponAlert, t)
    ELSE ~Debounced(s.threatState.lastSOSAlert, t)

CreateAlertNoUpdate(s, type, t) == s
CreateAlertUpdate(s, type, t) ==
    IF type = "weapon"
    THEN [s EXCEPT !.threatState.lastWeaponAlert = t]
    ELSE [s EXCEPT !.threatState.lastSOSAlert = t]

\* useThreatDetection.createAlert, debounced: `return null` before any
\* assignment
CreateAlertRefusedMoves(s, type, t) == CreateAlertUpdate(s, type, t)
CreateAlertRefused(s, type, t) == s

\* useEmergencyDispatch.sendEmergencyAlert, called through a closure that saw
\* lastSentAt = seen; setLastSentAt(now) reaches the next render
DispatchDebounced(seen, t) == Truthy(seen) /\ t - seen < DEBOUNCE_MS

SendEmergencyAlertUndoing(s, seen, t) ==
    IF DispatchDebounced(seen, t)
    THEN [s EXCEPT !.alerts = SubSeq(s.alerts, 2, Len(s.alerts))]
    ELSE [s EXCEPT !.lastSentAt = t, !.lastAttemptAt = t,
                   !.outbound = s.outbound + 1]
SendEmergencyAlert(s, seen, t) ==
    IF DispatchDebounced(seen, t)
    THEN s
    ELSE [s EXCEPT !.lastSentAt = t, !.lastAttemptAt = t,
                   !.outbound = s.outbound + 1]

\* Dashboard: the status each branch sets after addAlert
StatusAfterWeaponAlertWrong == "alert"
StatusAfterWeaponAlert == "lockdown"
StatusAfterSosAlert == "alert"
StatusAfterSoundAlert == "alert"

\* Dashboard.processFrameWithAI, pose branch once poseResult.sosTriggered
SosBranch(s, seen, t) ==
    IF CreateAlertAdmits(s, "sos", t)
    THEN SendEmergencyAlert(
             SetCampusStatus(AddAlert(CreateAlertUpdate(s, "sos", t), "sos", 0, t),
                             StatusAfterSosAlert),
             seen, t)
    ELSE CreateAlertRefused(s, "sos", t)

\* Dashboard.processFrameWithAI, weapon branch once weaponDetections.length > 0;
\* handleTestWeaponAlert makes the same calls
WeaponBranch(s, seen, t) ==
    IF CreateAlertAdmits(s, "weapon", t)
    THEN SendEmergencyAlert(
             SetCampusStatus(AddAlert(CreateAlertUpdate(s, "weapon", t), "threat", 0, t),
                             StatusAfterWeaponAlert),
             seen, t)
    ELSE CreateAlertRefused(s, "weapon", t)

\* Dashboard.handleAudioThreat / handleMobileAudio once they take the threat
SoundBranch(s, seen, conf, t) ==
    SendEmergencyAlert(
        SetCampusStatus(AddAlert(s, "sound", conf, t), StatusAfterSoundAlert),
        seen, t)

Commit(s) ==
    /\ alerts' = s.alerts
    /\ campusStatus' = s.campusStatus
    /\ threatState' = s.threatState
    /\ lastSentAt' = s.lastSentAt
    /\ created' = s.created
    /\ lastAttemptAt' = s.lastAttemptAt
    /\ outbound' = s.outbound

----------------------------------------------------------------------------
(* Handlers of the dashboard *)

FrameNums == {1, POSE_DETECTION_SKIP, WEAPON_DETECTION_SKIP,
              2 * FACE_DETECTION_SKIP}

\* handleFrame -> processFrameWithAI up to `img.src = frameData`
FrameStart ==
    /\ ~processing
    /\ created < MaxAlerts
    /\ processing' = TRUE
    /\ frameSeen' = lastSentAt
    /\ UNCHANGED <<now, ticks, alerts, campusStatus, threatState, lastSentAt,
                   audioOn, audioSeen, lastProcessTime, created, lastAttemptAt,
                   outbound, weaponVars, poseVars, fn, calls, frameRun, sock, mic>>

\* img.onload: the pose branch, then the weapon branch, then the flag is released.
\* frameNum is frameCounterRef.current; sosTriggered and weaponFound are what
\* detectPose and detectWeapons returned for this frame.
FrameOnload ==
    /\ processing
    /\ \E frameNum \in FrameNums, sosTriggered \in BOOLEAN, weaponFound \in BOOLEAN :
         LET s1 == IF frameNum % POSE_DETECTION_SKIP = 0 /\ sosTriggered
                   THEN SosBranch(Cur, frameSeen, now) ELSE Cur
             s2 == IF frameNum % WEAPON_DETECTION_SKIP = 0 /\ weaponFound
                   THEN WeaponBranch(s1, frameSeen, now) ELSE s1
         IN Commit(s2)
    /\ processing' = FALSE
    /\ frameSeen' = 0
    /\ UNCHANGED <<now, ticks, audioOn, audioSeen, lastProcessTime,
                   weaponVars, poseVars, fn, calls, frameRun, sock, mic>>

\* img.onerror
FrameError ==
    /\ processing
    /\ processing' = FALSE
    /\ frameSeen' = 0
    /\ UNCHANGED <<now, ticks, alerts, campusStatus, threatState, lastSentAt,
                   audioOn, audioSeen, lastProcessTime, created,
                   lastAttemptAt, outbound, weaponVars, poseVars, fn, calls, frameRun, sock, mic>>

\* handleTestWeaponAlert
HandleTestWeaponAlert ==
    /\ Commit(WeaponBranch(Cur, lastSentAt, now))
    /\ UNCHANGED <<now, ticks, processing, frameSeen, audioOn, audioSeen,
                   lastProcessTime, weaponVars, poseVars, fn, calls, frameRun, sock, mic>>

\* a broadcast "audio" payload: isThreat, threatClass?, confidence?
MobileConfidences == {0, 20, 90}

\* handleMobileAudio
HandleMobileAudio(isThreat, hasClass, confidence) ==
    /\ IF isThreat /\ hasClass /\ Truthy(confidence)
       THEN Commit(SoundBranch(Cur, lastSentAt, confidence, now))
       ELSE Commit(Cur)
    /\ UNCHANGED <<now, ticks, processing, frameSeen, audioOn, audioSeen,
                   lastProcessTime, weaponVars, poseVars, fn, calls, frameRun, sock, mic>>

MobileAudio ==
    /\ created < MaxAlerts
    /\ \E isThreat \in BOOLEAN, hasClass \in BOOLEAN, confidence \in MobileConfidences :
         HandleMobileAudio(isThreat, hasClass, confidence)

TestWeaponAlert ==
    /\ created < MaxAlerts
    /\ HandleTestWeaponAlert

\* useAudioDetection.startListening: the processor closes over the
\* onThreatDetected of this render
StartListening ==
    /\ ~audioOn
    /\ audioOn' = TRUE
    /\ audioSeen' = lastSentAt
    /\ UNCHANGED <<now, ticks, alerts, campusStatus, threatState, lastSentAt,
                   processing, frameSeen, lastProcessTime, created, lastAttemptAt,
                   outbound, weaponVars, poseVars, fn, calls, frameRun, sock, mic>>

\* useAudioDetection.stopListening
StopListening ==
    /\ audioOn
    /\ audioOn' = FALSE
    /\ audioSeen' = 0
    /\ UNCHANGED <<now, ticks, alerts, campusStatus, threatState, lastSentAt,
                   processing, frameSeen, lastProcessTime, created,
                   lastAttemptAt, outbound, weaponVars, poseVars, fn, calls, frameRun, sock, mic>>

\* processAudioBuffer: confidence 0.4 + random*0.5 in the threat branch,
\* 0.5 + random*0.3 for speech, 0.2 + random*0.3 otherwise
LocalConfidences(hasHighAmplitude, hasHighVariance) ==
    IF hasHighAmplitude /\ hasHighVariance THEN {40}
    ELSE IF hasHighAmplitude THEN {50}
    ELSE {20}

IsThreat(hasHighAmplitude, hasHighVariance, confidence) ==
    hasHighAmplitude /\ hasHighVariance /\ confidence > AudioConfidenceThreshold

\* processor.onaudioprocess -> processAudioBuffer -> handleAudioThreat
LocalAudio ==
    /\ audioOn
    /\ created < MaxAlerts
    /\ now - lastProcessTime >= AUDIO_FRAME_MS
    /\ lastProcessTime' = now
    /\ \E hasHighAmplitude \in BOOLEAN, hasHighVariance \in BOOLEAN :
         \E confidence \in LocalConfidences(hasHighAmplitude, hasHighVariance) :
            IF IsThreat(hasHighAmplitude, hasHighVariance, confidence)
            THEN Commit(SoundBranch(Cur, audioSeen, confidence, now))
            ELSE Commit(Cur)
    /\ UNCHANGED <<now, ticks, processing, frameSeen, audioOn, audioSeen,
                   weaponVars, poseVars, fn, calls, frameRun, sock, mic>>

\* useDemoMode.resetStatus
ResetStatusClearsHistory ==
    /\ campusStatus' = "secure"
    /\ alerts' = <<>>
    /\ UNCHANGED <<now, ticks, threatState, lastSentAt, processing,
                   frameSeen, audioOn, audioSeen, lastProcessTime, created,
                   lastAttemptAt, outbound, weaponVars, poseVars, fn, calls, frameRun, sock, mic>>
ResetStatus ==
    /\ campusStatus' = "secure"
    /\ UNCHANGED <<now, ticks, alerts, threatState, lastSentAt, processing,
                   frameSeen, audioOn, audioSeen, lastProcessTime, created,
                   lastAttemptAt, outbound, weaponVars, poseVars, fn, calls, frameRun, sock, mic>>

Deltas == {ALERT_DEBOUNCE_MS - 1, ALERT_DEBOUNCE_MS, DEBOUNCE_MS}

\* the clock moves between handlers
Advance ==
    /\ ticks < MaxTicks
    /\ \E d \in Deltas : now' = now + d
    /\ ticks' = ticks + 1
    /\ UNCHANGED <<engineVars, weaponVars, poseVars, fn, calls, frameRun, sock, mic>>

----------------------------------------------------------------------------

InitEngine ==
    /\ now = Epoch
    /\ ticks = 0
    /\ alerts = <<>>
    /\ campusStatus = "secure"
    /\ threatState = [lastWeaponAlert |-> 0, lastSOSAlert |-> 0]
    /\ lastSentAt = 0
    /\ processing = FALSE
    /\ frameSeen = 0
    /\ audioOn = FALSE
    /\ audioSeen = 0
    /\ lastProcessTime = 0
    /\ created = 0
    /\ lastAttemptAt = 0
    /\ outbound = 0

InitWeapon ==
    /\ wd = [lastProcessed |-> 0, cached |-> FALSE, consecutive |-> 0]
    /\ wret = [kind |-> "none", found |-> FALSE, at |-> 0, qualifying |-> FALSE,
               runLen |-> 0, runStart |-> 0, cameraId |-> "none", runSources |-> {},
               trail |-> <<>>]

InitPose ==
    /\ sos = [isDetected |-> FALSE, startTime |-> 0, duration |-> 0, lastProcessed |-> 0]
    /\ pret = [kind |-> "none", sosTriggered |-> FALSE, at |-> 0,
               holdStart |-> 0, holdConfirms |-> 0]

\* no invocation being served, after `received` invocations
FnIdle(received) ==
    [pc |-> "idle", bodyOk |-> TRUE, tgConfigured |-> FALSE,
     emailConfigured |-> FALSE, snapshot |-> "none", tgNet |-> "ok",
     emailNet |-> "ok", telegram |-> "unset", email |-> "unset",
     tgRequests |-> 0, emailRequests |-> 0, status |-> 0, success |-> FALSE,
     transport |-> "ok", client |-> "none", calls |-> received]

InitFn == fn = FnIdle(0)

\* no createAlert call in flight, none returned
InitCalls ==
    calls = [inflight |-> [c \in {"frame", "test"} |-> [pc |-> "idle", type |-> "none", t |-> 0]],
             log |-> <<>>]

\* no frame processed yet
InitFrameRun ==
    frameRun = [n |-> 0, due |-> {}, evaluated |-> {}, failed |-> {},
                admitted |-> {}, failures |-> 0, end |-> "none"]

\* useWebSocket after construction: no socket, no timer.  connects counts the
\* sockets created, sinceOpen the reconnections scheduled since the last
\* open, connect() or disconnect(); afterDisconnect tells that disconnect()
\* was called and connect() has not been called since.
InitSock ==
    sock = [conns |-> <<>>, timers |-> <<>>, retryCount |-> 0,
            isConnected |-> FALSE, connects |-> 0, sinceOpen |-> 0,
            afterDisconnect |-> FALSE]

\* useAudioDetection after construction.  pending counts the startListening
\* calls awaiting getUserMedia, captures the captures started and not
\* released, held tells that the refs point to a capture, starts counts the
\* startListening calls so far.
InitMic ==
    mic = [enabled |-> FALSE, isListening |-> FALSE, pending |-> 0,
           captures |-> 0, held |-> FALSE, starts |-> 0, stopped |-> FALSE]

Init ==
    /\ InitEngine /\ InitWeapon /\ InitPose /\ InitFn /\ InitCalls /\ InitFrameRun
    /\ InitSock /\ InitMic

Next ==
    \/ FrameStart
    \/ FrameOnload
    \/ FrameError
    \/ TestWeaponAlert
    \/ MobileAudio
    \/ StartListening
    \/ StopListening
    \/ LocalAudio
    \/ ResetStatus
    \/ Advance

Spec == Init /\ [][Next]_vars

----------------------------------------------------------------------------
(* The alert store filled past its capacity: sound alerts from the mobile  *)
(* audio callback and weapon alerts from the Test button.                  *)

HistMobileAudio ==
    /\ created < MaxHistAlerts
    /\ HandleMobileAudio(TRUE, TRUE, 90)

HistTestWeaponAlert ==
    /\ created < MaxHistAlerts
    /\ HandleTestWeaponAlert

HistAdvance ==
    /\ ticks < MaxHistTicks
    /\ now' = now + ALERT_DEBOUNCE_MS
    /\ ticks' = ticks + 1
    /\ UNCHANGED <<engineVars, weaponVars, poseVars, fn, calls, frameRun, sock, mic>>

NextHist ==
    \/ HistMobileAudio
    \/ HistTestWeaponAlert
    \/ HistAdvance

SpecHist == Init /\ [][NextHist]_vars

----------------------------------------------------------------------------
(* The Index page: its own useDemoMode store, fed by the 'alert' messages  *)
(* of the WebSocket, with the event log's acknowledge and the banner's     *)
(* reset.                                                                  *)

\* message.data.type is cast, not checked: any string of the sender
SocketAlertTypes == {"threat", "sos", "sound", "intrusion", "unknown"}

\* Index.handleMessage, case "alert": addAlert and nothing else
HandleMessageAlert(type) ==
    /\ Commit(AddAlert(Cur, type, 0, now))
    /\ UNCHANGED <<now, ticks, processing, frameSeen, audioOn, audioSeen,
                   lastProcessTime, weaponVars, poseVars, fn, calls, frameRun, sock, mic>>

SocketAlert ==
    /\ created < MaxStoreAlerts
    /\ \E type \in SocketAlertTypes : HandleMessageAlert(type)

\* useDemoMode.acknowledgeAlert: prev.map(a => a.id === alertId ? {...a,
\* acknowledged: true} : a)
AcknowledgedToggled(list, alertId) ==
    [i \in 1..Len(list) |->
        IF list[i].id = alertId
        THEN [list[i] EXCEPT !.acknowledged = ~list[i].acknowledged]
        ELSE list[i]]
Acknowledged(list, alertId) ==
    [i \in 1..Len(list) |->
        IF list[i].id = alertId
        THEN [list[i] EXCEPT !.acknowledged = TRUE]
        ELSE list[i]]

AcknowledgeAlert(alertId) ==
    /\ alerts' = Acknowledged(alerts, alertId)
    /\ UNCHANGED <<now, ticks, campusStatus, threatState, lastSentAt, processing,
                   frameSeen, audioOn, audioSeen, lastProcessTime, created,
                   lastAttemptAt, outbound, weaponVars, poseVars, fn, calls, frameRun, sock, mic>>

\* the ids a caller may pass: those of the history and one that is in no record
AlertIds == {alerts[i].id : i \in 1..Len(alerts)} \cup {0}

Acknowledge == \E alertId \in AlertIds : AcknowledgeAlert(alertId)

StoreAdvance ==
    /\ ticks < MaxStoreTicks
    /\ now' = now + 1
    /\ ticks' = ticks + 1
    /\ UNCHANGED <<engineVars, weaponVars, poseVars, fn, calls, frameRun, sock, mic>>

NextStore ==
    \/ SocketAlert
    \/ Acknowledge
    \/ ResetStatus
    \/ StoreAdvance

SpecStore == Init /\ [][NextStore]_vars

----------------------------------------------------------------------------
(* createAlert is async: it runs from its call to its first await          *)
(* (saveSnapshot) in one piece, and its caller goes on when the promise     *)
(* resolves.  The frame pipeline and the Test button can each have one call*)
(* in flight.  calls.log lists the finished calls in the order they        *)
(* returned: type, Date.now() of the call, and whether an alert came back. *)

Callers == {"frame", "test"}

\* the Test button asks for a weapon alert, the frame pipeline for either
CallTypes(c) == IF c = "test" THEN {"weapon"} ELSE {"weapon", "sos"}

\* createAlert from its call to `await saveSnapshot`: the debounce check and
\* the update of the last-alert time; a debounced call returns null
CreateAlertCall(c, type) ==
    /\ calls.inflight[c].pc = "idle"
    /\ Len(calls.log) + Cardinality({d \in Callers : calls.inflight[d].pc # "idle"})
          < MaxCreateCalls
    /\ IF CreateAlertAdmits(Cur, type, now)
       THEN /\ Commit(CreateAlertUpdate(Cur, type, now))
            /\ calls' = [calls EXCEPT !.inflight[c] =
                                        [pc |-> "awaiting", type |-> type, t |-> now]]
       ELSE /\ Commit(CreateAlertRefused(Cur, type, now))
            /\ calls' = [calls EXCEPT !.log =
                              Append(@, [type |-> type, t |-> now, alert |-> FALSE])]
    /\ UNCHANGED <<now, ticks, processing, frameSeen, audioOn, audioSeen,
                   lastProcessTime, weaponVars, poseVars, fn, frameRun, sock, mic>>

CreateCall == \E c \in Callers : \E type \in CallTypes(c) : CreateAlertCall(c, type)

\* the promise resolves with the alert; the caller goes on with addAlert,
\* setCampusStatus and sendEmergencyAlert
CreateAlertReturn(c) ==
    /\ calls.inflight[c].pc = "awaiting"
    /\ LET type == calls.inflight[c].type
           s1 == AddAlert(Cur, IF type = "weapon" THEN "threat" ELSE "sos", 0, now)
           s2 == SetCampusStatus(s1, IF type = "weapon" THEN StatusAfterWeaponAlert
                                     ELSE StatusAfterSosAlert)
       IN /\ Commit(SendEmergencyAlert(s2, lastSentAt, now))
          /\ calls' = [inflight |-> [calls.inflight EXCEPT ![c] =
                                        [pc |-> "idle", type |-> "none", t |-> 0]],
                       log |-> Append(calls.log,
                                      [type |-> type, t |-> calls.inflight[c].t,
                                       alert |-> TRUE])]
    /\ UNCHANGED <<now, ticks, processing, frameSeen, audioOn, audioSeen,
                   lastProcessTime, weaponVars, poseVars, fn, frameRun, sock, mic>>

CreateReturn == \E c \in Callers : CreateAlertReturn(c)

CreateDeltas == {1, ALERT_DEBOUNCE_MS - 1}

CreateAdvance ==
    /\ ticks < MaxCreateTicks
    /\ \E d \in CreateDeltas : now' = now + d
    /\ ticks' = ticks + 1
    /\ UNCHANGED <<engineVars, weaponVars, poseVars, fn, calls, frameRun, sock, mic>>

NextCreate ==
    \/ CreateCall
    \/ CreateReturn
    \/ CreateAdvance

SpecCreate == Init /\ [][NextCreate]_vars

----------------------------------------------------------------------------
(* useWeaponDetection.detectWeapons *)

\* analyzeForWeapons: nothing unless all three ratios pass; else a confidence
\* capped at 0.95 and detected = confidence > OVERALL_CONFIDENCE_MIN
AnalysisConfidences == {OVERALL_CONFIDENCE_MIN, confidenceThreshold,
                        confidenceThreshold + 1, MAX_ANALYSIS_CONFIDENCE}

AnalyzeForWeapons(meetsAll, confidence) ==
    IF ~meetsAll THEN [detected |-> FALSE, confidence |-> 0]
    ELSE [detected |-> confidence > OVERALL_CONFIDENCE_MIN,
          confidence |-> Min(MAX_ANALYSIS_CONFIDENCE, confidence)]

\* detectWeapons: result.detected && result.confidence > confidenceThreshold
Qualifies(result) == result.detected /\ result.confidence > confidenceThreshold

\* detectWeapons: consecutiveDetectionsRef.current >= REQUIRED_CONSECUTIVE
ConfirmsOneEarly(count) == count >= REQUIRED_CONSECUTIVE - 1
Confirms(count) == count >= REQUIRED_CONSECUTIVE

\* detectWeapons: served from the cache inside the interval
Throttled(t) == t - wd.lastProcessed < DETECTION_INTERVAL_MS

\* The run of consecutive qualifying analyses that the last analysis belongs
\* to (length and time of its first hit): a miss ends a run, a run that
\* reached REQUIRED_CONSECUTIVE is complete and the next hit starts a new one.
RunAfter(qualifying) ==
    IF ~qualifying THEN [len |-> 0, start |-> 0]
    ELSE IF wret.runLen = 0 \/ wret.runLen >= REQUIRED_CONSECUTIVE
         THEN [len |-> 1, start |-> now]
         ELSE [len |-> wret.runLen + 1, start |-> wret.runStart]

\* detectWeapons, else branch: consecutiveDetectionsRef.current = 0
CountAfterMissKept(count) == count
CountAfterMiss(count) == 0

\* the outcomes ("hit", "miss", "error") of the calls that got past the
\* throttle, the last REQUIRED_CONSECUTIVE + 1 of them, oldest first
TrailAfter(outcome) ==
    LET t == Append(wret.trail, outcome)
    IN IF Len(t) > REQUIRED_CONSECUTIVE + 1 THEN Tail(t) ELSE t

\* a call inside the interval returns cachedDetectionsRef.current
DetectThrottled ==
    /\ Throttled(now)
    /\ wret' = [wret EXCEPT !.kind = "throttled", !.found = wd.cached, !.at = now]
    /\ UNCHANGED <<now, ticks, engineVars, wd, poseVars, fn, calls, frameRun, sock, mic>>

\* a call whose analysis throws: the catch returns [] and touches no ref
\* but lastProcessedRef
DetectThrows ==
    /\ ~Throttled(now)
    /\ wd' = [wd EXCEPT !.lastProcessed = now]
    /\ wret' = [wret EXCEPT !.kind = "error", !.found = FALSE, !.at = now,
                            !.trail = TrailAfter("error")]
    /\ UNCHANGED <<now, ticks, engineVars, poseVars, fn, calls, frameRun, sock, mic>>

\* the cameras whose frames reach handleFrame
Cameras == {"mobile-cam", "cam-2"}

\* the cameras whose frames gave the hits of the run the last analysis belongs to
RunSourcesAfter(qualifying, cameraId) ==
    IF ~qualifying THEN {}
    ELSE IF wret.runLen = 0 \/ wret.runLen >= REQUIRED_CONSECUTIVE
         THEN {cameraId}
         ELSE wret.runSources \cup {cameraId}

\* a call that analyses the frame; the frame is the one processFrameWithAI
\* got for cameraId, and detectWeapons is given the image alone
DetectAnalyses ==
    /\ ~Throttled(now)
    /\ \E meetsAll \in BOOLEAN, confidence \in AnalysisConfidences,
          cameraId \in Cameras :
         LET result == AnalyzeForWeapons(meetsAll, confidence)
             count  == wd.consecutive + 1
             run    == RunAfter(Qualifies(result))
             sources == RunSourcesAfter(Qualifies(result), cameraId)
             trail  == TrailAfter(IF Qualifies(result) THEN "hit" ELSE "miss")
         IN IF Qualifies(result)
            THEN IF Confirms(count)
                 THEN /\ wd' = [lastProcessed |-> now, cached |-> TRUE,
                                consecutive |-> 0]
                      /\ wret' = [kind |-> "analysed", found |-> TRUE, at |-> now,
                                  qualifying |-> TRUE, runLen |-> run.len,
                                  runStart |-> run.start,
                                  cameraId |-> cameraId, runSources |-> sources,
                                  trail |-> trail]
                 ELSE /\ wd' = [lastProcessed |-> now, cached |-> FALSE,
                                consecutive |-> count]
                      /\ wret' = [kind |-> "analysed", found |-> FALSE, at |-> now,
                                  qualifying |-> TRUE, runLen |-> run.len,
                                  runStart |-> run.start,
                                  cameraId |-> cameraId, runSources |-> sources,
                                  trail |-> trail]
            ELSE /\ wd' = [lastProcessed |-> now, cached |-> FALSE,
                                consecutive |-> CountAfterMiss(wd.consecutive)]
                 /\ wret' = [kind |-> "analysed", found |-> FALSE, at |-> now,
                             qualifying |-> FALSE, runLen |-> run.len,
                             runStart |-> run.start,
                                  cameraId |-> cameraId, runSources |-> sources,
                                  trail |-> trail]
    /\ UNCHANGED <<now, ticks, engineVars, poseVars, fn, calls, frameRun, sock, mic>>

WeaponDeltas == {DETECTION_INTERVAL_MS \div 2, DETECTION_INTERVAL_MS}

WeaponAdvance ==
    /\ ticks < MaxWeaponTicks
    /\ \E d \in WeaponDeltas : now' = now + d
    /\ ticks' = ticks + 1
    /\ UNCHANGED <<engineVars, weaponVars, poseVars, fn, calls, frameRun, sock, mic>>

NextWeapon ==
    \/ DetectThrottled
    \/ DetectThrows
    \/ DetectAnalyses
    \/ WeaponAdvance

SpecWeapon == Init /\ [][NextWeapon]_vars

----------------------------------------------------------------------------
(* usePoseDetection.detectPose and the pose branch of processFrameWithAI *)

\* performance.now(): milliseconds since the page was loaded
PerformanceNow == now - Epoch

PoseThrottled == PerformanceNow - sos.lastProcessed < POSE_THROTTLE_MS

\* resetSOSState, and detectPose's own reset
SosReset == [isDetected |-> FALSE, startTime |-> 0, duration |-> 0]

\* detectPose on arms raised: startTime is set when it is null, the duration
\* is measured from it
SosRaised ==
    LET start == IF ~Truthy(sos.startTime) THEN now ELSE sos.startTime
    IN [isDetected |-> TRUE, startTime |-> start, duration |-> now - start]

\* detectPose: sosStateRef.current.duration >= SOS_TRIGGER_DURATION
SosTriggers(duration) == duration >= SOS_TRIGGER_DURATION

WithProcessed(st) ==
    [isDetected |-> st.isDetected, startTime |-> st.startTime,
     duration |-> st.duration, lastProcessed |-> PerformanceNow]

\* a frame whose pose call is inside the 66 ms throttle, or whose
\* detectForVideo throws: no observation, sosTriggered false
PoseNoObservation(throws) ==
    /\ IF throws THEN ~PoseThrottled ELSE PoseThrottled
    /\ sos' = IF throws THEN [sos EXCEPT !.lastProcessed = PerformanceNow] ELSE sos
    /\ pret' = [pret EXCEPT !.kind = IF throws THEN "error" ELSE "throttled",
                            !.sosTriggered = FALSE, !.at = now]
    /\ UNCHANGED <<now, ticks, engineVars, weaponVars, fn, calls, frameRun, sock, mic>>

PoseThrottledFrame == PoseNoObservation(FALSE)
PoseThrowsFrame == PoseNoObservation(TRUE)

\* a frame observed without both arms raised (landmarks with arms down, or no
\* landmarks): the state is reset
PoseNotRaisedFrame ==
    /\ ~PoseThrottled
    /\ sos' = WithProcessed(SosReset)
    /\ pret' = [kind |-> "down", sosTriggered |-> FALSE, at |-> now,
                holdStart |-> 0, holdConfirms |-> 0]
    /\ UNCHANGED <<now, ticks, engineVars, weaponVars, fn, calls, frameRun, sock, mic>>

\* a frame observed with both arms raised; when detectPose reports
\* sosTriggered the dashboard calls createAlert and, if an alert comes back,
\* addAlert, setCampusStatus, resetSOSState and sendEmergencyAlert
PoseRaisedFrame ==
    /\ ~PoseThrottled
    /\ LET st == SosRaised
           triggered == SosTriggers(st.duration)
           start == IF pret.holdStart = 0 THEN now ELSE pret.holdStart
       IN /\ pret' = [kind |-> "raised", sosTriggered |-> triggered, at |-> now,
                      holdStart |-> start,
                      holdConfirms |-> pret.holdConfirms + (IF triggered THEN 1 ELSE 0)]
          /\ IF triggered /\ CreateAlertAdmits(Cur, "sos", now)
             THEN /\ Commit(SosBranch(Cur, lastSentAt, now))
                  /\ sos' = WithProcessed(SosReset)
             ELSE /\ sos' = WithProcessed(st)
                  /\ UNCHANGED <<alerts, campusStatus, threatState, lastSentAt,
                                 created, lastAttemptAt, outbound>>
    /\ UNCHANGED <<now, ticks, processing, frameSeen, audioOn, audioSeen,
                   lastProcessTime, weaponVars, fn, calls, frameRun, sock, mic>>

PoseDeltas == {POSE_THROTTLE_MS, SOS_TRIGGER_DURATION - 1 - POSE_THROTTLE_MS,
               SOS_TRIGGER_DURATION}

PoseAdvance ==
    /\ ticks < MaxPoseTicks
    /\ \E d \in PoseDeltas : now' = now + d
    /\ ticks' = ticks + 1
    /\ UNCHANGED <<engineVars, weaponVars, poseVars, fn, calls, frameRun, sock, mic>>

NextPose ==
    \/ PoseThrottledFrame
    \/ PoseThrowsFrame
    \/ PoseNotRaisedFrame
    \/ PoseRaisedFrame
    \/ PoseAdvance

SpecPose == Init /\ [][NextPose]_vars

----------------------------------------------------------------------------
(* processFrameWithAI channel by channel.  The face, pose and weapon steps *)
(* of a frame run in this order inside one try block; each detector hook   *)
(* has its own try/catch.  sendEmergencyAlert is called without await and  *)
(* no step of this specification answers a dispatch: an invocation once    *)
(* started stays in flight.                                                *)

Channels == {"face", "pose", "weapon"}

ChannelOrder(c) == CASE c = "face" -> 1 [] c = "pose" -> 2 [] c = "weapon" -> 3

ChannelSkip(c) ==
    CASE c = "face" -> FACE_DETECTION_SKIP
      [] c = "pose" -> POSE_DETECTION_SKIP
      [] c = "weapon" -> WEAPON_DETECTION_SKIP

\* the channels whose step runs for frame number frameNum (models loaded)
Due(frameNum) == {c \in Channels : frameNum % ChannelSkip(c) = 0}

\* detectFaces / detectPose / detectWeapons when the detection throws: the
\* hook's catch returns its empty (or cached) result to processFrameWithAI
DetectorCallEscapes(throws) == IF throws THEN "thrown" ELSE "result"
DetectorCall(throws) == IF throws THEN "empty" ELSE "result"

\* the due channels whose step is reached: an exception that reaches the try
\* block of processFrameWithAI skips the steps after it
Evaluated(due, throws) ==
    {c \in due : \A d \in due :
        ChannelOrder(d) < ChannelOrder(c) => DetectorCall(d \in throws) # "thrown"}

\* what the detector of channel c can report: a positive only when its
\* step is reached and its detection does not throw
DetectorResults(c, due, throws) ==
    IF c \in Evaluated(due, throws) /\ c \notin throws THEN BOOLEAN ELSE {FALSE}

\* processingRef.current at the end of img.onload: the handler goes past the
\* sendEmergencyAlert(...) calls without awaiting them
FlagHeldByDispatch(dispatched) == dispatched
FlagAfterOnload(dispatched) == FALSE

\* an invocation was started and has not been answered
DispatchInFlight == outbound > fn.calls

PipeFrameStart ==
    /\ ~processing
    /\ frameRun.n < MaxPipeFrames
    /\ created < MaxPipeAlerts
    /\ processing' = TRUE
    /\ frameSeen' = lastSentAt
    /\ UNCHANGED <<now, ticks, alerts, campusStatus, threatState, lastSentAt,
                   audioOn, audioSeen, lastProcessTime, created, lastAttemptAt,
                   outbound, weaponVars, poseVars, fn, calls, frameRun, sock, mic>>

\* img.onload; throws is the set of channels whose detection throws for
\* this frame
PipeFrameOnload ==
    /\ processing
    /\ \E frameNum \in FrameNums :
       \E throws \in SUBSET Due(frameNum) :
       \E sosTriggered \in DetectorResults("pose", Due(frameNum), throws),
          weaponFound \in DetectorResults("weapon", Due(frameNum), throws) :
         LET due == Due(frameNum)
             evaluated == Evaluated(due, throws)
             got(c) == c \in evaluated /\ DetectorCall(c \in throws) = "result"
             s1 == IF got("pose") /\ sosTriggered
                   THEN SosBranch(Cur, frameSeen, now) ELSE Cur
             s2 == IF got("weapon") /\ weaponFound
                   THEN WeaponBranch(s1, frameSeen, now) ELSE s1
             failed == throws \cap evaluated
         IN /\ Commit(s2)
            /\ processing' = FlagAfterOnload(s2.outbound > outbound)
            /\ frameRun' = [n |-> frameRun.n + 1, due |-> due,
                            evaluated |-> evaluated, failed |-> failed,
                            admitted |-> {s2.alerts[i].type :
                                            i \in 1..(s2.created - created)},
                            failures |-> frameRun.failures
                                           + (IF failed # {} THEN 1 ELSE 0),
                            end |-> IF evaluated # due THEN "caught"
                                    ELSE "loaded"]
    /\ frameSeen' = 0
    /\ UNCHANGED <<now, ticks, audioOn, audioSeen, lastProcessTime,
                   weaponVars, poseVars, fn, calls, sock, mic>>

\* img.onerror
PipeFrameError ==
    /\ processing
    /\ processing' = FALSE
    /\ frameSeen' = 0
    /\ frameRun' = [n |-> frameRun.n + 1, due |-> {}, evaluated |-> {},
                    failed |-> {}, admitted |-> {},
                    failures |-> frameRun.failures + 1, end |-> "error"]
    /\ UNCHANGED <<now, ticks, alerts, campusStatus, threatState, lastSentAt,
                   audioOn, audioSeen, lastProcessTime, created,
                   lastAttemptAt, outbound, weaponVars, poseVars, fn, calls, sock, mic>>

PipeMobileAudio ==
    /\ created < MaxPipeAlerts
    /\ HandleMobileAudio(TRUE, TRUE, 90)

PipeAdvance ==
    /\ ticks < MaxPipeTicks
    /\ now' = now + ALERT_DEBOUNCE_MS
    /\ ticks' = ticks + 1
    /\ UNCHANGED <<engineVars, weaponVars, poseVars, fn, calls, frameRun, sock, mic>>

NextFrames ==
    \/ PipeFrameStart
    \/ PipeFrameOnload
    \/ PipeFrameError
    \/ PipeMobileAudio
    \/ PipeAdvance

SpecFrames == Init /\ [][NextFrames]_vars

----------------------------------------------------------------------------
(* useWebSocket.  sock.conns lists the sockets that still have an event to *)
(* deliver: st is "connecting", "open" or "closing" (close() was called),  *)
(* seen is state.retryCount as the connect closure that made the socket    *)
(* saw it, cur tells that wsRef.current is this socket.  sock.timers lists *)
(* the reconnect timers not yet fired: seen is that of the closure which   *)
(* set the timer and which the timer calls, held tells that                *)
(* reconnectTimeoutRef.current is this timer.                              *)

RemoveAt(list, i) == SubSeq(list, 1, i - 1) \o SubSeq(list, i + 1, Len(list))

\* wsRef.current?.readyState === WebSocket.OPEN
CurrentOpen(s) ==
    \E i \in 1..Len(s.conns) : s.conns[i].cur /\ s.conns[i].st = "open"

\* connect() of a closure that saw state.retryCount = seen
ConnectWith(s, seen) ==
    IF CurrentOpen(s) THEN s
    ELSE [s EXCEPT
            !.conns = Append([i \in 1..Len(s.conns) |->
                                 [s.conns[i] EXCEPT !.cur = FALSE]],
                             [st |-> "connecting", seen |-> seen, cur |-> TRUE]),
            !.connects = @ + 1]

\* ws.onclose: state.retryCount < maxRetries, with the state of the closure
MayRetry(seen) == seen < maxRetries

\* disconnect(): clearTimeout(reconnectTimeoutRef.current)
TimersAfterDisconnect(timers) ==
    SelectSeq(timers, LAMBDA t : ~t.held)

\* the Connect button: connect() of the current render
SockConnect ==
    /\ sock.connects < MaxSockConnects
    /\ Len(sock.conns) < MaxSockLive
    /\ sock' = [ConnectWith(sock, sock.retryCount) EXCEPT
                   !.afterDisconnect = FALSE, !.sinceOpen = 0]
    /\ UNCHANGED <<now, ticks, engineVars, weaponVars, poseVars, fn, calls,
                   frameRun, mic>>

\* ws.onopen
SockOpen ==
    /\ \E i \in 1..Len(sock.conns) :
         /\ sock.conns[i].st = "connecting"
         /\ sock' = [sock EXCEPT !.conns[i].st = "open", !.isConnected = TRUE,
                                 !.retryCount = 0, !.sinceOpen = 0]
    /\ UNCHANGED <<now, ticks, engineVars, weaponVars, poseVars, fn, calls,
                   frameRun, mic>>

\* ws.onclose, for a socket that failed to connect, lost its connection
\* or was closed by disconnect()
SockClose ==
    /\ \E i \in 1..Len(sock.conns) :
         LET c == sock.conns[i]
         IN sock' = IF MayRetry(c.seen)
                    THEN [sock EXCEPT
                            !.conns = RemoveAt(@, i),
                            !.isConnected = FALSE,
                            !.timers = Append([k \in 1..Len(@) |->
                                                  [@[k] EXCEPT !.held = FALSE]],
                                              [seen |-> c.seen, held |-> TRUE]),
                            !.sinceOpen = @ + 1]
                    ELSE [sock EXCEPT !.conns = RemoveAt(@, i),
                                      !.isConnected = FALSE]
    /\ UNCHANGED <<now, ticks, engineVars, weaponVars, poseVars, fn, calls,
                   frameRun, mic>>

\* the reconnect timer: retryCount + 1, then connect() of the closure that
\* set the timer
SockTimerFires ==
    /\ sock.connects < MaxSockConnects
    /\ \E k \in 1..Len(sock.timers) :
         sock' = ConnectWith([sock EXCEPT !.timers = RemoveAt(@, k),
                                          !.retryCount = @ + 1],
                             sock.timers[k].seen)
    /\ UNCHANGED <<now, ticks, engineVars, weaponVars, poseVars, fn, calls,
                   frameRun, mic>>

\* disconnect()
SockDisconnect ==
    /\ sock' = [sock EXCEPT
                   !.timers = TimersAfterDisconnect(@),
                   !.conns = [i \in 1..Len(@) |->
                                 IF @[i].cur
                                 THEN [@[i] EXCEPT !.st = "closing", !.cur = FALSE]
                                 ELSE @[i]],
                   !.isConnected = FALSE, !.retryCount = 0,
                   !.afterDisconnect = TRUE, !.sinceOpen = 0]
    /\ UNCHANGED <<now, ticks, engineVars, weaponVars, poseVars, fn, calls,
                   frameRun, mic>>

NextSocket ==
    \/ SockConnect
    \/ SockOpen
    \/ SockClose
    \/ SockTimerFires
    \/ SockDisconnect

SpecSocket == Init /\ [][NextSocket]_vars

----------------------------------------------------------------------------
(* useAudioDetection: startListening is async and its guard reads the      *)
(* isListening state, which becomes true only after getUserMedia resolved. *)
(* The enabled effect runs again whenever enabled, isListening or the      *)
(* identity of startListening (which follows onThreatDetected) changes.    *)

\* startListening up to `await getUserMedia`: `if (isListening) return`
StartListeningCall(m) ==
    IF m.isListening THEN m
    ELSE [m EXCEPT !.pending = @ + 1, !.starts = @ + 1]

\* stopListening: what the refs point to is released, the refs are cleared
StopListeningCall(m) ==
    [m EXCEPT !.captures = IF m.held THEN @ - 1 ELSE @,
              !.held = FALSE, !.isListening = FALSE, !.stopped = TRUE]

\* the enabled effect
EnabledEffect(m) ==
    IF m.enabled /\ ~m.isListening THEN StartListeningCall(m)
    ELSE IF ~m.enabled /\ m.isListening THEN StopListeningCall(m)
    ELSE m

\* the audio toggle is switched on
MicEnable ==
    /\ ~mic.enabled
    /\ mic.starts < MaxMicStarts
    /\ mic' = EnabledEffect([mic EXCEPT !.enabled = TRUE])
    /\ UNCHANGED <<now, ticks, engineVars, weaponVars, poseVars, fn, calls,
                   frameRun, sock>>

\* the audio toggle is switched off
MicDisable ==
    /\ mic.enabled
    /\ mic' = EnabledEffect([mic EXCEPT !.enabled = FALSE])
    /\ UNCHANGED <<now, ticks, engineVars, weaponVars, poseVars, fn, calls,
                   frameRun, sock>>

\* a render with a new onThreatDetected: startListening is a new function and
\* the effect runs again
MicEffectRerun ==
    /\ mic.starts < MaxMicStarts
    /\ mic' = EnabledEffect(mic)
    /\ UNCHANGED <<now, ticks, engineVars, weaponVars, poseVars, fn, calls,
                   frameRun, sock>>

\* getUserMedia resolves for one of the waiting calls: stream, audio context
\* and processor are created and stored in the refs, isListening becomes
\* true and the effect runs
MicGranted ==
    /\ mic.pending > 0
    /\ mic' = EnabledEffect([mic EXCEPT !.pending = @ - 1, !.captures = @ + 1,
                                        !.held = TRUE, !.isListening = TRUE,
                                        !.stopped = FALSE])
    /\ UNCHANGED <<now, ticks, engineVars, weaponVars, poseVars, fn, calls,
                   frameRun, sock>>

\* getUserMedia rejects for one of the waiting calls
MicDenied ==
    /\ mic.pending > 0
    /\ mic' = [mic EXCEPT !.pending = @ - 1]
    /\ UNCHANGED <<now, ticks, engineVars, weaponVars, poseVars, fn, calls,
                   frameRun, sock>>

NextMic ==
    \/ MicEnable
    \/ MicDisable
    \/ MicEffectRerun
    \/ MicGranted
    \/ MicDenied

SpecMic == Init /\ [][NextMic]_vars

----------------------------------------------------------------------------
(* supabase/functions/emergency-dispatch: one request                      *)
(*                                                                         *)
(* snapshot: "none" (absent), "text" (a string that is no data:image URL), *)
(* "image" (data:image...,<base64>), "imageNoPayload" (nothing after the   *)
(* comma), "imageCut" (a payload atob rejects, as one cut by the client's  *)
(* substring(0, 50000) can be).  tgNet / emailNet: what the channel's HTTP *)
(* exchange does: "ok", "notOk" (a response that reports failure), "throw" *)
(* (fetch or json() rejects).  A result entry is "unset" until assigned.   *)
(* transport: whether supabase.functions.invoke reaches the function and   *)
(* gets its answer ("ok") or not ("error").  client: what the caller's     *)
(* sendEmergencyAlert returned, "none" while the call is in flight.        *)

Snapshots == {"none", "text", "image", "imageNoPayload", "imageCut"}
NetOutcomes == {"ok", "notOk", "throw"}

\* alert.snapshot && alert.snapshot.startsWith("data:image")
IsImage(snapshot) == snapshot \in {"image", "imageNoPayload", "imageCut"}

\* results.telegram = photoResult.ok / textResult.ok; false in the catch
TelegramResult(net) == IF net = "ok" THEN "true" ELSE "false"

\* results.email = emailRes.ok && emailResult.id (the id of the accepted
\* message); false in the catch
EmailResult(net) == IF net = "ok" THEN "id" ELSE "false"

\* sendEmergencyAlert after invoke: { success: false, error } when invoke gave
\* an error (no answer, or an answer that is not 2xx) or something threw,
\* { success: true, response } otherwise
ClientResult(error) == IF error THEN "failure" ELSE "success"

\* the response body's success field
ResponseSuccessIfDelivered(telegram, email) == telegram = "true" \/ email = "id"
ResponseSuccess(telegram, email) == TRUE

\* the request is parsed and the message formatted; a body that cannot be used
\* goes to the outer catch, which answers 500; an invocation that does not
\* get through never runs the function
FnReceiveFrom(bodies) ==
    /\ fn.pc = "idle"
    /\ \E bodyOk \in bodies, tg \in BOOLEAN, em \in BOOLEAN,
          snap \in Snapshots, tgNet \in NetOutcomes, emNet \in NetOutcomes,
          transport \in {"ok", "error"} :
         fn' = [fn EXCEPT !.pc = IF bodyOk /\ transport = "ok"
                                 THEN "telegram" ELSE "done",
                          !.bodyOk = bodyOk, !.tgConfigured = tg,
                          !.emailConfigured = em, !.snapshot = snap,
                          !.tgNet = tgNet, !.emailNet = emNet,
                          !.transport = transport,
                          !.status = IF transport = "ok" /\ ~bodyOk THEN 500 ELSE 0,
                          !.client = IF bodyOk /\ transport = "ok"
                                     THEN "none" ELSE ClientResult(TRUE),
                          !.calls = @ + 1]
    /\ UNCHANGED <<now, ticks, engineVars, weaponVars, poseVars, calls, frameRun, sock, mic>>

FnReceive == FnReceiveFrom(BOOLEAN)

\* the Telegram block
FnTelegram ==
    /\ fn.pc = "telegram"
    /\ fn' = IF ~fn.tgConfigured THEN [fn EXCEPT !.pc = "email"]
             ELSE IF IsImage(fn.snapshot)
             THEN IF fn.snapshot = "imageNoPayload"
                  THEN [fn EXCEPT !.pc = "email"]
                  ELSE IF fn.snapshot = "imageCut"
                  THEN [fn EXCEPT !.pc = "email", !.telegram = "false"]
                  ELSE [fn EXCEPT !.pc = "email", !.tgRequests = @ + 1,
                                  !.telegram = TelegramResult(fn.tgNet)]
             ELSE [fn EXCEPT !.pc = "email", !.tgRequests = @ + 1,
                             !.telegram = TelegramResult(fn.tgNet)]
    /\ UNCHANGED <<now, ticks, engineVars, weaponVars, poseVars, calls, frameRun, sock, mic>>

\* the email block
FnEmail ==
    /\ fn.pc = "email"
    /\ fn' = IF ~fn.emailConfigured THEN [fn EXCEPT !.pc = "respond"]
             ELSE [fn EXCEPT !.pc = "respond", !.emailRequests = @ + 1,
                             !.email = EmailResult(fn.emailNet)]
    /\ UNCHANGED <<now, ticks, engineVars, weaponVars, poseVars, calls, frameRun, sock, mic>>

\* the response: success true with the results gathered
FnRespond ==
    /\ fn.pc = "respond"
    /\ fn' = [fn EXCEPT !.pc = "done", !.status = 200,
                        !.success = ResponseSuccess(fn.telegram, fn.email),
                        !.client = ClientResult(FALSE)]
    /\ UNCHANGED <<now, ticks, engineVars, weaponVars, poseVars, calls, frameRun, sock, mic>>

NextFn ==
    \/ FnReceive
    \/ FnTelegram
    \/ FnEmail
    \/ FnRespond

SpecFn == Init /\ [][NextFn]_vars

----------------------------------------------------------------------------
(* Admissions on the dashboard whose dispatches are served by the edge     *)
(* function.  The dashboard does not await sendEmergencyAlert and ignores  *)
(* what it returns.                                                        *)

DispTestWeaponAlert ==
    /\ created < MaxDispAlerts
    /\ HandleTestWeaponAlert

DispMobileAudio ==
    /\ created < MaxDispAlerts
    /\ HandleMobileAudio(TRUE, TRUE, 90)

\* supabase.functions.invoke for an outbound invocation not yet served; the
\* body sendEmergencyAlert builds always parses
DispInvoke ==
    /\ outbound > fn.calls
    /\ FnReceiveFrom({TRUE})

\* sendEmergencyAlert returns (finally: setIsSending(false))
DispReturn ==
    /\ fn.pc = "done"
    /\ fn' = FnIdle(fn.calls)
    /\ UNCHANGED <<now, ticks, engineVars, weaponVars, poseVars, calls, frameRun, sock, mic>>

DispAdvance ==
    /\ ticks < MaxDispTicks
    /\ now' = now + DEBOUNCE_MS
    /\ ticks' = ticks + 1
    /\ UNCHANGED <<engineVars, weaponVars, poseVars, fn, calls, frameRun, sock, mic>>

NextDispatch ==
    \/ DispTestWeaponAlert
    \/ DispMobileAudio
    \/ DispInvoke
    \/ FnTelegram
    \/ FnEmail
    \/ FnRespond
    \/ DispReturn
    \/ DispAdvance

SpecDispatch == Init /\ [][NextDispatch]_vars

----------------------------------------------------------------------------
(* Claims on the admission paths and the store *)

SameType(i, j) == alerts[i].type = alerts[j].type

\* C1: two confirmed events of the same type less than 5000 ms apart leave one
\* AlertRecord, on every admission path: no two records of one type in the
\* history were created less than 5000 ms apart.
C1_SameTypeRecordsDebounced ==
    \A i, j \in 1..Len(alerts) :
        (i < j /\ SameType(i, j)) =>
            alerts[i].timestamp - alerts[j].timestamp >= ALERT_DEBOUNCE_MS

\* C2: no step other than resetStatus() lowers CampusStatus in the order
\* secure < alert < lockdown.
C2_StatusNeverLowered ==
    [][ResetStatus \/ Severity(campusStatus') >= Severity(campusStatus)]_vars

\* C3: every outbound invocation of the dispatch function is the only one of
\* its step and comes at least 30000 ms after the previous one.
C3_GlobalDispatchCooldown ==
    [][outbound' > outbound =>
         /\ outbound' = outbound + 1
         /\ (lastAttemptAt = 0 \/ now - lastAttemptAt >= DEBOUNCE_MS)]_vars

\* C6: no AlertRecord comes from an acoustic observation whose confidence is
\* below the acoustic threshold.
C6_NoRecordBelowThreshold ==
    \A i \in 1..Len(alerts) :
        alerts[i].type = "sound" => alerts[i].conf >= AudioConfidenceThreshold

\* the records a step created, newest first
NewRecords == 1..Min(created' - created, Len(alerts'))

\* C7: a step that admits a Weapon alert leaves CampusStatus at lockdown,
\* whatever it was before.
C7_WeaponAlertLocksDown ==
    [][(\E i \in NewRecords : alerts'[i].type = "threat")
          => campusStatus' = "lockdown"]_vars

\* a weapon alert admitted on top of an earlier sos or sound alert
C7_Witness ==
    /\ Len(alerts) >= 2
    /\ alerts[1].type = "threat"
    /\ alerts[2].type \in {"sos", "sound"}
    /\ alerts[1].timestamp > alerts[2].timestamp
    /\ campusStatus = "lockdown"

\* C9: the history holds the min(created, 20) most recent records, newest
\* first: the 21st admission evicts exactly the oldest record.
C9_HistoryIsNewestTwenty ==
    /\ Len(alerts) = Min(created, HISTORY_CAPACITY)
    /\ \A i \in 1..Len(alerts) : alerts[i].seq = created - i + 1

\* more records were admitted than the history holds
C9_Witness ==
    /\ created > HISTORY_CAPACITY
    /\ Len(alerts) = HISTORY_CAPACITY
    /\ alerts[HISTORY_CAPACITY].seq > 1

\* C10: the records of the history have pairwise distinct ids.
C10_IdsDistinct ==
    \A i, j \in 1..Len(alerts) : i # j => alerts[i].id # alerts[j].id

C12_AcknowledgeIdempotent ==
    [][\A alertId \in AlertIds :
          AcknowledgeAlert(alertId) =>
            /\ campusStatus' = campusStatus
            /\ Len(alerts') = Len(alerts)
            /\ \A i \in 1..Len(alerts) :
                  IF alerts[i].id = alertId
                  THEN alerts'[i] = [alerts[i] EXCEPT !.acknowledged = TRUE]
                  ELSE alerts'[i] = alerts[i]
            /\ Acknowledged(alerts', alertId) = alerts'
            /\ ((\A i \in 1..Len(alerts) : alerts[i].id # alertId)
                   => alerts' = alerts)]_vars

\* a history in which one record is acknowledged and a record with another id
\* is not
C12_Witness ==
    \E i, j \in 1..Len(alerts) :
        /\ alerts[i].acknowledged
        /\ ~alerts[j].acknowledged
        /\ alerts[i].id # alerts[j].id

\* the status priority table
PriorityStatus(type) == IF type = "threat" THEN "lockdown" ELSE "alert"

\* C13: a step that admits an alert of a known type while the status is secure
\* leaves the status the priority table gives for the type.
C13_StatusFromSecure ==
    [][(campusStatus = "secure" /\ created' = created + 1
          /\ alerts'[1].type \in {"threat", "sos", "sound", "intrusion"})
         => campusStatus' = PriorityStatus(alerts'[1].type)]_vars

\* C14: no record of the history comes from an input of unknown type.
C14_MalformedDropped ==
    \A i \in 1..Len(alerts) : alerts[i].type \in {"threat", "sos", "sound", "intrusion"}

----------------------------------------------------------------------------
(* Claims on the weapon channel *)

\* C4: an analysis that is the 1st or 2nd hit of its run confirms nothing, and
\* the 3rd hit of a run confirms when it falls within 3000 ms of the 1st.
C4_ThirdHitConfirms ==
    wret.kind = "analysed" =>
        /\ (wret.runLen \in 1..(REQUIRED_CONSECUTIVE - 1) => ~wret.found)
        /\ (wret.runLen = REQUIRED_CONSECUTIVE /\ wret.at - wret.runStart <= 3000
               => wret.found)

\* a confirmed 3rd hit exactly 3000 ms after the 1st hit of its run
C4_Witness ==
    /\ wret.kind = "analysed"
    /\ wret.found
    /\ wret.runLen = REQUIRED_CONSECUTIVE
    /\ wret.at - wret.runStart = 3000

\* C18: a confirmed weapon detection for a camera rests on hits that all came
\* from frames of that camera.
C18_RunOfOneSource ==
    (wret.kind = "analysed" /\ wret.found) => wret.runSources = {wret.cameraId}

\* C19: a confirmed weapon detection is the 3rd hit of a run whose hits all
\* fall within 3000 ms of the first.
C19_StaleRunNeverConfirms ==
    (wret.kind = "analysed" /\ wret.found) => wret.at - wret.runStart <= 3000

\* C27: a call served from the cache inside the throttle interval returns an
\* empty list, so that a completed run gives a non-empty list on one call only.
C27_OneEmissionPerRun ==
    wret.kind = "throttled" => ~wret.found

\* C21: a non-qualifying analysis sets the consecutive-hit count to zero and
\* confirms nothing, a throttled call and an analysis that throws leave the
\* count as it was, and a detection is only confirmed by the 3rd hit of a run
\* (so hit, hit, miss, hit confirms nothing).
C21_MissResetsCount ==
    [][/\ (wret'.kind = "analysed" /\ ~wret'.qualifying)
            => (wd'.consecutive = 0 /\ ~wret'.found)
       /\ (wret'.kind \in {"throttled", "error"})
            => wd'.consecutive = wd.consecutive
       /\ (wret'.kind = "analysed" /\ wret'.found)
            => wret'.runLen = REQUIRED_CONSECUTIVE
       /\ (wret'.kind = "analysed" /\ wret'.trail = <<"hit", "hit", "miss", "hit">>)
            => ~wret'.found]_vars

\* the analyses hit, hit, miss, hit were made and the last confirmed nothing
C21_Witness ==
    /\ wret.kind = "analysed"
    /\ wret.trail = <<"hit", "hit", "miss", "hit">>
    /\ ~wret.found
    /\ wd.consecutive = 1

----------------------------------------------------------------------------
(* Claims on the posture channel *)

\* C5: within one hold (arms raised on every observed tick since the last
\* tick observed without), detectPose reports sosTriggered only after 3000 ms
\* of the hold, reports it once the hold has lasted 3000 ms, and reports it
\* exactly once.
C5_OneSosPerHold ==
    /\ (pret.sosTriggered => pret.at - pret.holdStart >= SOS_TRIGGER_DURATION)
    /\ ((pret.kind = "raised" /\ pret.at - pret.holdStart >= SOS_TRIGGER_DURATION)
           => pret.holdConfirms >= 1)
    /\ pret.holdConfirms <= 1

\* C20: when detectPose has reported sosTriggered, the hold state is zero
\* after the frame, whether createAlert admitted the event or not.
C20_StateZeroAfterEmission ==
    pret.sosTriggered => (~sos.isDetected /\ sos.startTime = 0 /\ sos.duration = 0)

----------------------------------------------------------------------------
(* Claims on the dispatch function *)

\* a result entry that tells success ("true", a message id) or failure
Reported(r) == r \in {"true", "id", "false"}

\* C8: in an answered call, when one configured channel failed, every other
\* configured channel got its request and has its own outcome in the result.
C8_ChannelsIndependent ==
    (fn.pc = "done" /\ fn.bodyOk) =>
        /\ (fn.tgConfigured /\ fn.telegram = "false" /\ fn.emailConfigured)
              => (fn.emailRequests = 1 /\ Reported(fn.email))
        /\ (fn.emailConfigured /\ fn.email = "false" /\ fn.tgConfigured)
              => (fn.tgRequests = 1 /\ Reported(fn.telegram))

\* C15: a call that reached the function with a body it can read ends with
\* status 200, success true and a success result at the caller, whatever the
\* channels did (failed, threw, not configured); every call ends with a
\* result at the caller.
C15_DispatchSucceedsWhenAttempted ==
    fn.pc = "done" =>
        /\ fn.client \in {"success", "failure"}
        /\ (fn.transport = "ok" /\ fn.bodyOk)
              => (fn.status = 200 /\ fn.success /\ fn.client = "success")

\* a call in which both configured channels failed, answered with success
C15_Witness ==
    /\ fn.pc = "done"
    /\ fn.tgConfigured /\ fn.telegram = "false"
    /\ fn.emailConfigured /\ fn.email = "false"
    /\ fn.success
    /\ fn.client = "success"

\* C25: in a call that reached the function, with no snapshot, a data:image
\* snapshot with a payload or a data:image snapshot with nothing after the
\* comma, every configured channel got exactly one request and has an outcome
\* in the result.
C25_OneAttemptPerChannel ==
    (fn.pc = "done" /\ fn.transport = "ok" /\ fn.bodyOk
       /\ fn.snapshot \in {"none", "image", "imageNoPayload"}) =>
        /\ fn.tgConfigured => (fn.tgRequests = 1 /\ Reported(fn.telegram))
        /\ fn.emailConfigured => (fn.emailRequests = 1 /\ Reported(fn.email))

\* C26: the dispatch cooldown time is set to the time of a step exactly when
\* the step starts an outbound attempt and is never changed otherwise (not by
\* a debounced call, not by the attempt's success, error or exception), and
\* no attempt starts less than 30000 ms after it.
C26_CooldownFollowsAttempts ==
    [][/\ outbound' > outbound => lastSentAt' = now
       /\ outbound' = outbound => lastSentAt' = lastSentAt
       /\ (Truthy(lastSentAt) /\ now - lastSentAt < DEBOUNCE_MS)
             => outbound' = outbound]_vars

\* C16: no step of a dispatch (invocation, channel blocks, response, return)
\* changes the history or the status, and neither does the sendEmergencyAlert
\* call itself, debounced or not.
C16_DispatchLeavesStore ==
    [][/\ (DispInvoke \/ FnTelegram \/ FnEmail \/ FnRespond \/ DispReturn)
            => (alerts' = alerts /\ campusStatus' = campusStatus)
       /\ \A seen \in {0, lastSentAt} :
            LET after == SendEmergencyAlert(Cur, seen, now)
            IN after.alerts = alerts /\ after.campusStatus = campusStatus]_vars

\* the dispatch of an admitted weapon alert has ended in failure at the caller
\* and the alert is in the history, the status lockdown
C16_Witness ==
    /\ fn.pc = "done"
    /\ fn.client = "failure"
    /\ Len(alerts) >= 1
    /\ alerts[1].type = "threat"
    /\ campusStatus = "lockdown"

----------------------------------------------------------------------------
(* Claims on createAlert *)

\* C17: of the createAlert calls of one type that returned an alert, no two
\* were started less than 5000 ms apart, whatever the interleaving of the
\* calls in flight.
C17_OneAlertPerCooldown ==
    \A i, j \in 1..Len(calls.log) :
        (i < j /\ calls.log[i].alert /\ calls.log[j].alert
           /\ calls.log[i].type = calls.log[j].type)
          => (calls.log[j].t - calls.log[i].t >= ALERT_DEBOUNCE_MS
                \/ calls.log[i].t - calls.log[j].t >= ALERT_DEBOUNCE_MS)

\* a call was refused while an earlier call of its type, started less than
\* 5000 ms before it, was still in flight, and that call then returned its alert
C17_Witness ==
    \E i, j \in 1..Len(calls.log) :
        /\ i < j
        /\ ~calls.log[i].alert
        /\ calls.log[j].alert
        /\ calls.log[i].type = calls.log[j].type
        /\ calls.log[j].t <= calls.log[i].t
        /\ calls.log[i].t - calls.log[j].t < ALERT_DEBOUNCE_MS

SetMax(S) == CHOOSE x \in S : \A y \in S : y <= x

\* the stored last-alert time of a type
LastFired(ts, type) ==
    IF type = "weapon" THEN ts.lastWeaponAlert ELSE ts.lastSOSAlert

\* the time of the latest createAlert call of a type that was admitted
\* (returned or still awaiting its snapshot), 0 when there is none
LastAdmitted(cs, type) ==
    SetMax({0}
           \cup {cs.log[i].t : i \in {k \in 1..Len(cs.log) :
                                        cs.log[k].type = type /\ cs.log[k].alert}}
           \cup {cs.inflight[c].t : c \in {d \in Callers :
                                        /\ cs.inflight[d].pc = "awaiting"
                                        /\ cs.inflight[d].type = type}})

\* C22: a createAlert call discarded by the cooldown changes nothing (last
\* alert times, history, status, dispatch state), so the stored last-alert
\* time of a type is always the time of its latest admitted call, and a call
\* is discarded exactly when it comes less than 5000 ms after that time.
C22_DiscardChangesNothing ==
    [][/\ \A type \in {"weapon", "sos"} :
             LastFired(threatState', type) = LastAdmitted(calls', type)
       /\ Len(calls'.log) > Len(calls.log) =>
             LET done == calls'.log[Len(calls'.log)]
                 last == LastAdmitted(calls, done.type)
             IN IF done.alert
                THEN calls'.inflight # calls.inflight
                ELSE /\ UNCHANGED <<engineVars, now>>
                     /\ calls'.inflight = calls.inflight
                     /\ last # 0
                     /\ done.t - last < ALERT_DEBOUNCE_MS
       /\ \A c \in Callers :
             (calls'.inflight[c].pc = "awaiting" /\ calls.inflight[c].pc = "idle")
               => LET last == LastAdmitted(calls, calls'.inflight[c].type)
                  IN last = 0 \/ now - last >= ALERT_DEBOUNCE_MS]_vars

\* an admitted call, a call of the type discarded after it, and a call of the
\* type admitted 5000 ms or more after the first and less than 5000 ms after
\* the discarded one
C22_Witness ==
    \E i, j \in 1..Len(calls.log) : \E c \in Callers :
        /\ calls.log[i].alert
        /\ ~calls.log[j].alert
        /\ calls.log[j].type = calls.log[i].type
        /\ calls.log[j].t >= calls.log[i].t
        /\ calls.inflight[c].pc = "awaiting"
        /\ calls.inflight[c].type = calls.log[i].type
        /\ calls.inflight[c].t - calls.log[i].t >= ALERT_DEBOUNCE_MS
        /\ calls.inflight[c].t - calls.log[j].t < ALERT_DEBOUNCE_MS

----------------------------------------------------------------------------
(* Claims on the frame pipeline *)

\* C23: a frame's onload handler releases the processing flag at its end also
\* when a dispatch is in flight or the handler itself started one, and a
\* weapon alert admitted by a frame while a dispatch is in flight is appended
\* to the history at once, with the status at lockdown.
C23_AdmissionNeverWaits ==
    [][/\ frameRun'.n > frameRun.n => ~processing'
       /\ (DispatchInFlight /\ frameRun'.n > frameRun.n
             /\ "threat" \in frameRun'.admitted)
            => (created' > created /\ alerts'[1].type = "threat"
                  /\ alerts'[1].timestamp = now /\ campusStatus' = "lockdown")]_vars

\* with the one dispatch started so far still unanswered, a frame and a
\* mobile audio event that came later each left a record, and the flag is free
C23_Witness ==
    /\ DispatchInFlight
    /\ outbound = 1
    /\ ~processing
    /\ frameRun.admitted # {}
    /\ \E i, j \in 1..Len(alerts) :
          /\ alerts[i].type \in frameRun.admitted
          /\ alerts[i].timestamp > lastAttemptAt
          /\ alerts[j].type = "sound"
          /\ alerts[j].timestamp > lastAttemptAt

\* C24: a frame whose face, pose or weapon detection throws still has every
\* channel due for it evaluated, and the processing flag is released at the
\* end of every frame, whether it loaded, failed to load or had a detection
\* throw.
C24_FailureIsolated ==
    [][frameRun'.n > frameRun.n =>
         /\ ~processing'
         /\ frameRun'.evaluated = frameRun'.due]_vars

\* after an earlier frame with a failure, a frame for which all three channels
\* were due had its face and pose detections throw and admitted a weapon alert
C24_Witness ==
    /\ frameRun.failures >= 2
    /\ frameRun.due = Channels
    /\ frameRun.failed = {"face", "pose"}
    /\ frameRun.evaluated = Channels
    /\ frameRun.admitted = {"threat"}
    /\ ~processing

----------------------------------------------------------------------------
(* Claims on useWebSocket *)

\* C28: no more than maxRetries reconnections are scheduled without an open
\* (or a connect() / disconnect() of the caller) in between.
C28_ReconnectionBounded ==
    sock.sinceOpen <= maxRetries

\* C29: once disconnect() was called, and until connect() is called, no
\* reconnect timer is pending, no socket is connecting or open, and
\* isConnected is false.
C29_NoReconnectAfterDisconnect ==
    sock.afterDisconnect =>
        /\ sock.timers = <<>>
        /\ ~sock.isConnected
        /\ \A i \in 1..Len(sock.conns) : sock.conns[i].st = "closing"

----------------------------------------------------------------------------
(* Claims on useAudioDetection *)

\* C30: at most one capture is active at any time, and after stopListening
\* none is.
C30_OneCapture ==
    /\ mic.captures <= 1
    /\ mic.stopped => mic.captures = 0

====
